---- MODULE Spec2Model ----
(***************************************************************************)
(* Model of src/app.js: the validators, the equality checker and the       *)
(* request handlers of the game-deal CRUD backend, over a MongoDB          *)
(* collection of game records.                                             *)
(*                                                                         *)
(* JavaScript values are tagged: [t |-> type, v |-> text].  A number and   *)
(* its string form have the same text and different tags, so that ===,     *)
(* Set.has, JSON.stringify and the store's equality can tell them apart.   *)
(***************************************************************************)
EXTENDS Integers, Sequences, FiniteSets, TLC

VARIABLES store, nextId, last, pre, arg, ret, task

vars == <<store, nextId, last, pre, arg, ret, task>>

(***************************************************************************)
(* Bounds of the model.                                                    *)
(***************************************************************************)
\* longest deal list given to the validators and the equality checker
MaxDeals == 2
\* number of keys the store ever assigns (ObjectIds are never reused)
MaxGames == 2

(***************************************************************************)
(* JavaScript values.                                                      *)
(***************************************************************************)
Undef == [t |-> "undefined", v |-> ""]
Null == [t |-> "null", v |-> ""]
Str(s) == [t |-> "string", v |-> s]
Num(s) == [t |-> "number", v |-> s]

\* a deals value: an array of deal entries, or one of the values that are no
\* array: undefined (the key is absent), null, or the empty string
Arr(s) == [t |-> "array", a |-> s]
NoArr(tag) == [t |-> tag, a |-> <<>>]

\* a deal entry as it arrives in a JSON body; Undef stands for an absent key
Deal(sid, pr, ex) == [storeID |-> sid, price |-> pr, extra |-> ex]

\* a game: a request body's fields (Undef for an absent key), or a record
Game(g, ti, th, cp, ds) ==
    [gameID |-> g, title |-> ti, thumb |-> th, cheapestPrice |-> cp, deals |-> ds]

\* !value for the values of the model: undefined, null, "" and 0 are falsy,
\* every array (the empty one too) is truthy
Falsy(x) ==
    \/ x.t \in {"undefined", "null"}
    \/ x.t = "string" /\ x.v = ""
    \/ x.t = "number" /\ x.v = "0"

\* strings for which parseFloat gives NaN
ParseFloatNaN == {"", "abc", "NaN"}
\* strings for which Number(s), which isFinite applies, is a finite number
NumberFinite == {"", "0", "5", "4.99", "9.99"}

(***************************************************************************)
(* Results of the validators and of the handlers.                          *)
(***************************************************************************)
Ok(x) == [kind |-> "ok", val |-> x]
Err(k) == [kind |-> k]
ErrNames(k, ns) == [kind |-> k, names |-> ns]
Pending == [kind |-> "pending"]

(***************************************************************************)
(* Deal Validator, src/app.js 54-105.                                      *)
(***************************************************************************)
\* the price left out of the check
isDealValidStoreIDOnly(deal) ==
    /\ deal.storeID # Null
    /\ deal.storeID # Str("")

isDealValid(deal) ==
    /\ deal.storeID # Null
    /\ deal.storeID # Str("")
    /\ deal.price # Null
    /\ deal.price # Str("")

\* !isNaN(parseFloat(value)) && isFinite(value)
isNumerical(value) ==
    CASE value.t = "number" -> TRUE
      [] value.t = "string" ->
            value.v \notin ParseFloatNaN /\ value.v \in NumberFinite
      [] OTHER -> FALSE

RECURSIVE uniqueFrom(_, _, _)
\* the loop of hasUniqueStoreIDs from entry i on, storeIDSet holding the
\* storeIDs of the entries before i
uniqueFrom(deals, i, storeIDSet) ==
    IF i > Len(deals) THEN TRUE
    ELSE IF deals[i].storeID \in storeIDSet THEN FALSE
    ELSE uniqueFrom(deals, i + 1, storeIDSet \cup {deals[i].storeID})

\* the check left out
hasUniqueStoreIDsAlways(deals) == TRUE

hasUniqueStoreIDs(deals) == uniqueFrom(deals, 1, {})

RECURSIVE attributesFrom(_, _)
\* the forEach of validateDealAttributes from entry i on: the first entry
\* that fails a check throws, the validity check before the numeric one
attributesFrom(deals, i) ==
    IF i > Len(deals) THEN Ok(deals)
    ELSE IF ~isDealValid(deals[i]) THEN Err("InvalidDeal")
    ELSE IF ~isNumerical(deals[i].price) THEN Err("NonNumericPrice")
    ELSE attributesFrom(deals, i + 1)

validateDealAttributes(deals) == attributesFrom(deals, 1)

\* the entries returned as they came, extra fields and all
normalizeNothing(deals) == deals

\* deals.map(deal => ({storeID, price}))
normalize(deals) ==
    [i \in 1..Len(deals) |-> [storeID |-> deals[i].storeID, price |-> deals[i].price]]

validateDeals(deals) ==
    IF deals.t # "array" \/ Len(deals.a) = 0 THEN Err("EmptyInput")
    ELSE IF validateDealAttributes(deals.a).kind # "ok"
         THEN validateDealAttributes(deals.a)
    ELSE IF ~hasUniqueStoreIDs(deals.a) THEN Err("DuplicateStoreID")
    ELSE Ok(normalize(deals.a))

(***************************************************************************)
(* Game Attribute Validator, src/app.js 84-129.                            *)
(***************************************************************************)
\* !game[attr] || game[attr] === null || game[attr] === ''
isAttributeInvalid(game, attr) ==
    CASE attr = "title" ->
            Falsy(game.title) \/ game.title = Null \/ game.title = Str("")
      [] attr = "cheapestPrice" ->
            \/ Falsy(game.cheapestPrice)
            \/ game.cheapestPrice = Null
            \/ game.cheapestPrice = Str("")
      [] attr = "deals" ->
            \* an array, even the empty one, is truthy
            game.deals.t \in {"undefined", "null", "string"}
      [] OTHER -> FALSE

validateCheapestPrice(cheapestPrice) ==
    IF ~isNumerical(cheapestPrice) THEN Err("NonNumericCheapestPrice")
    ELSE Ok(cheapestPrice)

requiredAttributes == <<"title", "cheapestPrice", "deals">>

invalidAttributesOf(game) ==
    LET bad(attr) == isAttributeInvalid(game, attr)
    IN  SelectSeq(requiredAttributes, bad)

\* the required-field check made before the numeric one
validateGameAttributesMissingFirst(game) ==
    IF Len(invalidAttributesOf(game)) > 0
    THEN ErrNames("MissingRequiredAttributes", invalidAttributesOf(game))
    ELSE IF validateCheapestPrice(game.cheapestPrice).kind # "ok"
    THEN validateCheapestPrice(game.cheapestPrice)
    ELSE Ok(game)

validateGameAttributes(game) ==
    IF validateCheapestPrice(game.cheapestPrice).kind # "ok"
    THEN validateCheapestPrice(game.cheapestPrice)
    ELSE IF Len(invalidAttributesOf(game)) > 0
    THEN ErrNames("MissingRequiredAttributes", invalidAttributesOf(game))
    ELSE Ok(game)

(***************************************************************************)
(* Equality Checker, src/app.js 269-277.                                   *)
(***************************************************************************)
\* JSON.stringify of a scalar: a string is quoted, a number is not
stringifyValue(x) ==
    CASE x.t = "string" -> "\"" \o x.v \o "\""
      [] x.t = "number" -> x.v
      [] OTHER -> "null"

\* one "key":value member, nothing for an absent key
member(key, x, sep) ==
    IF x = Undef THEN "" ELSE sep \o "\"" \o key \o "\":" \o stringifyValue(x)

\* JSON.stringify of a deal entry: every key the entry has, in the order
\* storeID, price, extra
stringifyDeal(d) ==
    "{" \o member("storeID", d.storeID, "")
        \o member("price", d.price, IF d.storeID = Undef THEN "" ELSE ",")
        \o member("extra", d.extra,
                   IF d.storeID = Undef /\ d.price = Undef THEN "" ELSE ",")
        \o "}"

RECURSIVE stringifyFrom(_, _)
stringifyFrom(deals, i) ==
    IF i > Len(deals) THEN ""
    ELSE (IF i > 1 THEN "," ELSE "") \o stringifyDeal(deals[i])
            \o stringifyFrom(deals, i + 1)

\* JSON.stringify(deals): the text of an array, "null" for null, "\"\"" for
\* the empty string, and the value undefined (here the text "undefined",
\* which no JSON text equals) for undefined
stringify(deals) ==
    CASE deals.t = "array" -> "[" \o stringifyFrom(deals.a, 1) \o "]"
      [] deals.t = "null" -> "null"
      [] deals.t = "string" -> "\"\""
      [] OTHER -> "undefined"

checkIfSameGame(existingGame, newGameData) ==
    /\ existingGame.gameID = newGameData.gameID
    /\ existingGame.title = newGameData.title
    /\ existingGame.thumb = newGameData.thumb
    /\ existingGame.cheapestPrice = newGameData.cheapestPrice
    /\ stringify(existingGame.deals) = stringify(newGameData.deals)

(***************************************************************************)
(* The collection: a set of [id, doc] entries.  The driver writes an       *)
(* undefined field of a document, of a filter or of a $set as null.        *)
(***************************************************************************)
bsonValue(x) == IF x = Undef THEN Null ELSE x

bsonDeals(ds) == IF ds.t = "undefined" THEN NoArr("null") ELSE ds

bson(doc) ==
    [gameID |-> bsonValue(doc.gameID), title |-> bsonValue(doc.title),
     thumb |-> bsonValue(doc.thumb), cheapestPrice |-> bsonValue(doc.cheapestPrice),
     deals |-> bsonDeals(doc.deals)]

Ids(coll) == {e.id : e \in coll}

DocAt(coll, id) == (CHOOSE e \in coll : e.id = id).doc

insertOne(coll, id, doc) == coll \cup {[id |-> id, doc |-> bson(doc)]}

\* a $set that skips the fields the payload leaves out: they keep their value
updateOneSkipUndefined(coll, id, newGameData) ==
    {IF e.id = id
     THEN [e EXCEPT !.doc =
            [gameID |-> IF newGameData.gameID = Undef THEN e.doc.gameID
                        ELSE newGameData.gameID,
             title |-> newGameData.title,
             thumb |-> IF newGameData.thumb = Undef THEN e.doc.thumb
                       ELSE newGameData.thumb,
             cheapestPrice |-> newGameData.cheapestPrice,
             deals |-> newGameData.deals]]
     ELSE e : e \in coll}

\* updateOne with { upsert: true }: a key that matches nothing is inserted
updateOneUpsert(coll, id, newGameData) ==
    IF id \in Ids(coll)
    THEN {IF e.id = id THEN [e EXCEPT !.doc = bson(newGameData)] ELSE e : e \in coll}
    ELSE coll \cup {[id |-> id, doc |-> bson(newGameData)]}

\* updateOne({_id}, {$set: newGameData}): the entry with the fields set
updateOne(coll, id, newGameData) ==
    {IF e.id = id THEN [e EXCEPT !.doc = bson(newGameData)] ELSE e : e \in coll}

\* the number of documents updateOne changed: a $set that leaves every
\* field as it was modifies nothing
modifiedCount(coll, id, newGameData) ==
    IF updateOne(coll, id, newGameData) = coll THEN 0 ELSE 1

\* the filter ignored: every record goes
deleteOneEverything(coll, id) == {}

deleteOne(coll, id) == {e \in coll : e.id # id}

\* the filter without its gameID branch
createFilterTitleOnly(doc, gameID, title) == doc.title = bsonValue(title)

\* { $or: [ { gameID: { $ne: null, $eq: gameID } }, { title } ] }
createFilter(doc, gameID, title) ==
    \/ doc.gameID # Null /\ doc.gameID = bsonValue(gameID)
    \/ doc.title = bsonValue(title)

\* { gameID: formattedGame.gameID }
fetchFilter(doc, gameID) == doc.gameID = bsonValue(gameID)

(***************************************************************************)
(* Responses.  Uncaught: the handler's promise rejected and no code of     *)
(* app.js caught it, so the handler sent no response.                      *)
(***************************************************************************)
Response(status, r) == [status |-> status, result |-> r]
Uncaught == Response(0, Err("Uncaught"))
Done(out, coll) == [out |-> out, coll |-> coll]

(***************************************************************************)
(* fetchAndStoreGame and POST /fetch-store, src/app.js 132-183.            *)
(***************************************************************************)
\* deal.storeID != null && deal.price != null (null and undefined fail it)
fetchedDealKept(deal) ==
    /\ deal.storeID \notin {Null, Undef}
    /\ deal.price \notin {Null, Undef}

formattedDeals(deals) ==
    LET kept == SelectSeq(deals, fetchedDealKept)
    IN  [i \in 1..Len(kept) |-> Deal(kept[i].storeID, kept[i].price, Undef)]

formattedGame(gameData) ==
    Game(gameData.gameID, gameData.title, gameData.thumb,
         gameData.cheapestPrice, Arr(formattedDeals(gameData.deals.a)))

\* the existence query of the create route, { $or: [gameID, title] }, used here
fetchAndStoreGameByTitleToo(coll, id, up, fault) ==
    IF fault = "connect" THEN Done(Uncaught, coll)
    ELSE IF fault = "network" THEN Done(Response(200, Err("FetchFailed")), coll)
    ELSE IF up.shape = "empty"
    THEN Done(Response(200, Err("InvalidAPIResponse")), coll)
    ELSE IF up.shape = "malformed" \/ up.game.deals.t # "array"
    THEN Done(Response(200, Err("FetchFailed")), coll)
    ELSE IF fault = "query" THEN Done(Response(200, Err("FetchFailed")), coll)
    ELSE IF \E e \in coll : createFilter(e.doc, formattedGame(up.game).gameID,
                                          formattedGame(up.game).title)
    THEN Done(Response(200, Err("Exists")), coll)
    ELSE IF fault = "write" THEN Done(Response(200, Err("FetchFailed")), coll)
    ELSE Done(Response(200, Ok(id)), insertOne(coll, id, formattedGame(up.game)))

fetchAndStoreGame(coll, id, up, fault) ==
    \* connectDB is awaited before the try, and the route catches nothing
    IF fault = "connect" THEN Done(Uncaught, coll)
    \* axios.get rejects
    ELSE IF fault = "network" THEN Done(Response(200, Err("FetchFailed")), coll)
    \* !gameData || Object.keys(gameData).length === 0
    ELSE IF up.shape = "empty"
    THEN Done(Response(200, Err("InvalidAPIResponse")), coll)
    \* gameData.info.gameID or gameData.deals.filter throws a TypeError
    ELSE IF up.shape = "malformed" \/ up.game.deals.t # "array"
    THEN Done(Response(200, Err("FetchFailed")), coll)
    ELSE IF fault = "query" THEN Done(Response(200, Err("FetchFailed")), coll)
    ELSE IF \E e \in coll : fetchFilter(e.doc, formattedGame(up.game).gameID)
    THEN Done(Response(200, Err("Exists")), coll)
    ELSE IF fault = "write" THEN Done(Response(200, Err("FetchFailed")), coll)
    ELSE Done(Response(200, Ok(id)), insertOne(coll, id, formattedGame(up.game)))

(***************************************************************************)
(* POST /games, src/app.js 186-225.                                        *)
(***************************************************************************)
\* the record written before the duplicate is noticed
createGameInsertFirst(coll, id, body, fault) ==
    IF fault = "connect" THEN Done(Uncaught, coll)
    ELSE IF validateGameAttributes(body).kind # "ok"
    THEN Done(Response(400, validateGameAttributes(body)), coll)
    ELSE IF validateDeals(body.deals).kind # "ok"
    THEN Done(Response(400, validateDeals(body.deals)), coll)
    ELSE IF fault = "query" THEN Done(Response(400, Err("StorageFailure")), coll)
    ELSE IF fault = "write" THEN Done(Response(400, Err("StorageFailure")), coll)
    ELSE IF \E e \in coll : createFilter(e.doc, body.gameID, body.title)
    THEN Done(Response(400, Err("DuplicateGame")), insertOne(coll, id, body))
    ELSE Done(Response(201, Ok(id)), insertOne(coll, id, body))

createGame(coll, id, body, fault) ==
    \* connectDB is awaited before the try
    IF fault = "connect" THEN Done(Uncaught, coll)
    ELSE IF validateGameAttributes(body).kind # "ok"
    THEN Done(Response(400, validateGameAttributes(body)), coll)
    ELSE IF validateDeals(body.deals).kind # "ok"
    THEN Done(Response(400, validateDeals(body.deals)), coll)
    ELSE IF fault = "query" THEN Done(Response(400, Err("StorageFailure")), coll)
    ELSE IF \E e \in coll : createFilter(e.doc, body.gameID, body.title)
    THEN Done(Response(400, Err("DuplicateGame")), coll)
    ELSE IF fault = "write" THEN Done(Response(400, Err("StorageFailure")), coll)
    \* the record is built from the body's fields, the deals as received
    ELSE Done(Response(201, Ok(id)), insertOne(coll, id, body))

(***************************************************************************)
(* PUT /games/:id, src/app.js 228-284.                                     *)
(***************************************************************************)
\* findOne({_id}) found a record
fetchExistingGame(coll, gameId) == gameId \in Ids(coll)

updateGame(coll, gameId, newGameData) ==
    [modifiedCount |-> modifiedCount(coll, gameId, newGameData),
     coll |-> updateOne(coll, gameId, newGameData)]

\* the record looked up before the payload is validated
putGameExistenceFirst(coll, gameId, body, fault) ==
    IF fault = "connect" THEN Done(Uncaught, coll)
    ELSE IF fault = "query" THEN Done(Response(400, Err("StorageFailure")), coll)
    ELSE IF ~fetchExistingGame(coll, gameId)
    THEN Done(Response(400, Err("NotFound")), coll)
    ELSE IF validateGameAttributes(body).kind # "ok"
    THEN Done(Response(400, validateGameAttributes(body)), coll)
    ELSE IF validateDeals(body.deals).kind # "ok"
    THEN Done(Response(400, validateDeals(body.deals)), coll)
    ELSE IF checkIfSameGame(DocAt(coll, gameId), body)
    THEN Done(Response(400, Err("NoChange")), coll)
    ELSE IF fault = "write" THEN Done(Response(400, Err("StorageFailure")), coll)
    ELSE IF updateGame(coll, gameId, body).modifiedCount = 0
    THEN Done(Response(400, Err("NotFoundOrNoChange")), updateGame(coll, gameId, body).coll)
    ELSE Done(Response(200, Ok(gameId)), updateGame(coll, gameId, body).coll)

putGame(coll, gameId, body, fault) ==
    IF fault = "connect" THEN Done(Uncaught, coll)
    ELSE IF validateGameAttributes(body).kind # "ok"
    THEN Done(Response(400, validateGameAttributes(body)), coll)
    ELSE IF validateDeals(body.deals).kind # "ok"
    THEN Done(Response(400, validateDeals(body.deals)), coll)
    ELSE IF fault = "query" THEN Done(Response(400, Err("StorageFailure")), coll)
    ELSE IF ~fetchExistingGame(coll, gameId)
    THEN Done(Response(400, Err("NotFound")), coll)
    ELSE IF checkIfSameGame(DocAt(coll, gameId), body)
    THEN Done(Response(400, Err("NoChange")), coll)
    ELSE IF fault = "write" THEN Done(Response(400, Err("StorageFailure")), coll)
    ELSE IF updateGame(coll, gameId, body).modifiedCount = 0
    THEN Done(Response(400, Err("NotFoundOrNoChange")), updateGame(coll, gameId, body).coll)
    ELSE Done(Response(200, Ok(gameId)), updateGame(coll, gameId, body).coll)

(***************************************************************************)
(* DELETE /games and DELETE /games/:id, src/app.js 315-343.                *)
(***************************************************************************)
deleteAllGames(coll, fault) ==
    IF fault # "none" THEN Done(Response(500, Err("StorageFailure")), coll)
    ELSE Done(Response(200, Ok(Cardinality(coll))), {})

deleteGame(coll, id, fault) ==
    IF fault # "none" THEN Done(Response(500, Err("StorageFailure")), coll)
    ELSE IF Cardinality(coll) - Cardinality(deleteOne(coll, id)) = 0
    THEN Done(Response(404, Err("NotFound")), deleteOne(coll, id))
    ELSE Done(Response(200, Ok(id)), deleteOne(coll, id))

(***************************************************************************)
(* The handlers step by step.  A handler runs without interruption between *)
(* two awaits, and each awaited store call is one atomic operation of the  *)
(* store: a create or an update is a query step followed, when the checks  *)
(* pass, by a write step; other requests may be served between the two.    *)
(***************************************************************************)
\* the handler answered
Finished(out) == [pc |-> "done", out |-> out]
\* the handler awaits its store write
AwaitsWrite == [pc |-> "write", out |-> Pending]

\* POST /games up to the existence check, 189-207
createQuery(coll, body) ==
    IF validateGameAttributes(body).kind # "ok"
    THEN Finished(Response(400, validateGameAttributes(body)))
    ELSE IF validateDeals(body.deals).kind # "ok"
    THEN Finished(Response(400, validateDeals(body.deals)))
    ELSE IF \E e \in coll : createFilter(e.doc, body.gameID, body.title)
    THEN Finished(Response(400, Err("DuplicateGame")))
    ELSE AwaitsWrite

\* insertOne rejected by a unique index on title
createWriteUniqueTitle(coll, id, body) ==
    IF \E e \in coll : e.doc.title = bsonValue(body.title)
    THEN Done(Response(400, Err("StorageFailure")), coll)
    ELSE Done(Response(201, Ok(id)), insertOne(coll, id, body))

\* POST /games from insertOne on, 209-220
createWrite(coll, id, body) ==
    Done(Response(201, Ok(id)), insertOne(coll, id, body))

\* PUT /games/:id up to the Equality Checker, 231-243
putQuery(coll, gameId, body) ==
    IF validateGameAttributes(body).kind # "ok"
    THEN Finished(Response(400, validateGameAttributes(body)))
    ELSE IF validateDeals(body.deals).kind # "ok"
    THEN Finished(Response(400, validateDeals(body.deals)))
    ELSE IF ~fetchExistingGame(coll, gameId)
    THEN Finished(Response(400, Err("NotFound")))
    ELSE IF checkIfSameGame(DocAt(coll, gameId), body)
    THEN Finished(Response(400, Err("NoChange")))
    ELSE AwaitsWrite

\* PUT /games/:id from updateGame on, 245-251
putWrite(coll, gameId, body) ==
    IF updateGame(coll, gameId, body).modifiedCount = 0
    THEN Done(Response(400, Err("NotFoundOrNoChange")), updateGame(coll, gameId, body).coll)
    ELSE Done(Response(200, Ok(gameId)), updateGame(coll, gameId, body).coll)

(***************************************************************************)
(* The state before any request, and the idle values of the variables a    *)
(* specification does not use.                                             *)
(***************************************************************************)
NoGame == Game(Undef, Undef, Undef, Undef, NoArr("undefined"))

NoUpstream == [shape |-> "none", game |-> NoGame]

NoRequest ==
    [op |-> "none", body |-> NoGame, key |-> 0, fault |-> "none",
     up |-> NoUpstream, out |-> Pending]

\* the requests in flight at once
Tasks == {"t1", "t2"}

NoTask == [op |-> "none", body |-> NoGame, key |-> 0, pc |-> "idle", out |-> Pending]

StoreIdle ==
    /\ store = {}
    /\ nextId = 1
    /\ last = NoRequest
    /\ pre = {}
    /\ task = [t \in Tasks |-> NoTask]

CallIdle ==
    /\ arg = NoGame
    /\ ret = Pending

(***************************************************************************)
(* The requests of the store specification.  Bodies vary the identity      *)
(* (gameID, title) over a base record, and each other field of one record  *)
(* over valid and invalid values.                                          *)
(***************************************************************************)
D1 == Deal(Str("1"), Str("9.99"), Undef)
D2 == Deal(Str("2"), Num("4.99"), Undef)
D1b == Deal(Str("1"), Str("5"), Undef)
DNoStore == Deal(Null, Str("5"), Undef)

BaseGame(g, ti) == Game(g, ti, Str("t1"), Str("5"), Arr(<<D1>>))

\* bodies that differ in gameID and title only
IdentityBodies ==
    {BaseGame(g, Str("A")) : g \in {Undef, Null, Str("g1")}}
        \cup {BaseGame(g, Str("B")) : g \in {Undef, Str("g1"), Str("g2")}}

\* bodies that differ from BaseGame(g1, A) in one other field
FieldBodies ==
    {Game(Str("g1"), Str("A"), th, Str("5"), Arr(<<D1>>)) : th \in {Undef, Null}}
        \cup {Game(Str("g1"), Str("A"), Str("t1"), Num("5"), Arr(<<D1>>)),
               Game(Str("g1"), Str("A"), Str("t1"), Str("5"), Arr(<<D1, D2>>))}

\* bodies a validator rejects
InvalidBodies ==
    {BaseGame(Str("g1"), Undef),
     Game(Str("g1"), Str("A"), Str("t1"), Str("5"), Arr(<<D1, D1b>>))}

Bodies == IdentityBodies \cup FieldBodies \cup InvalidBodies

\* the bodies sent while the store is failing
FaultBodies == {BaseGame(Str("g1"), Str("A"))}

UpstreamGame(ds) == Game(Str("g1"), Str("A"), Str("t1"), Str("5"), ds)

Upstreams ==
    {[shape |-> sh, game |-> NoGame] : sh \in {"empty", "malformed"}}
        \cup {[shape |-> "ok", game |-> UpstreamGame(ds)] :
                ds \in {Arr(<<D1, D1b>>), Arr(<<D1, DNoStore>>)}}

\* the upstream answers given while the store or the network is failing
FaultUpstreams == {[shape |-> "ok", game |-> UpstreamGame(Arr(<<D1, DNoStore>>))]}

Keys == 1..MaxGames

Request(op, body, key, fault, up, out) ==
    [op |-> op, body |-> body, key |-> key, fault |-> fault, up |-> up, out |-> out]

Init == StoreIdle /\ CallIdle

\* one whole request, from the state coll it meets to the state and the
\* response done describes; an insert takes the next key
Handle(op, body, key, fault, up, done) ==
    /\ done.coll # store /\ op \in {"create", "fetch"} => nextId <= MaxGames
    /\ store' = done.coll
    /\ nextId' = IF done.coll # store /\ op \in {"create", "fetch"}
                  THEN nextId + 1 ELSE nextId
    /\ pre' = store
    /\ last' = Request(op, body, key, fault, up, done.out)
    /\ UNCHANGED <<arg, ret, task>>

Create ==
    \E body \in Bodies, fault \in {"none", "connect", "query", "write"} :
        /\ fault = "none" \/ body \in FaultBodies
        /\ Handle("create", body, 0, fault, NoUpstream,
                  createGame(store, nextId, body, fault))

Update ==
    \E gameId \in Keys, body \in Bodies, fault \in {"none", "connect", "query", "write"} :
        /\ fault = "none" \/ body \in FaultBodies
        /\ Handle("update", body, gameId, fault, NoUpstream,
                  putGame(store, gameId, body, fault))

FetchStore ==
    \E up \in Upstreams, fault \in {"none", "connect", "network", "query", "write"} :
        /\ fault = "none" \/ up \in FaultUpstreams
        /\ Handle("fetch", NoGame, 0, fault, up,
                  fetchAndStoreGame(store, nextId, up, fault))

DeleteAll ==
    \E fault \in {"none", "connect"} :
        Handle("deleteAll", NoGame, 0, fault, NoUpstream, deleteAllGames(store, fault))

DeleteOne ==
    \E id \in Keys, fault \in {"none", "connect"} :
        Handle("delete", NoGame, id, fault, NoUpstream, deleteGame(store, id, fault))

Next == Create \/ Update \/ FetchStore \/ DeleteAll \/ DeleteOne

Spec == Init /\ [][Next]_vars

\* the store written by create, update and delete requests only: every
\* record it holds was inserted by a create
NextCrud == Create \/ Update \/ DeleteAll \/ DeleteOne

SpecCrud == Init /\ [][NextCrud]_vars

(***************************************************************************)
(* Create, update and delete-by-key requests served concurrently: each     *)
(* request in flight advances one store operation at a time, in any order. *)
(***************************************************************************)
\* two valid bodies of one title and a body without title
RaceBodies ==
    {BaseGame(Str("g1"), Str("A")), BaseGame(Undef, Str("A")), BaseGame(Str("g1"), Undef)}

\* a request arrives and its handler awaits its first store call
Arrive(t) ==
    /\ task[t].pc \in {"idle", "done"}
    /\ \E op \in {"create", "update", "delete"}, body \in RaceBodies, key \in Keys :
          task' = [task EXCEPT ![t] =
                     [op |-> op,
                      body |-> IF op = "delete" THEN NoGame ELSE body,
                      key |-> IF op = "create" THEN 0 ELSE key,
                      pc |-> IF op = "delete" THEN "write" ELSE "query",
                      out |-> Pending]]
    /\ UNCHANGED <<store, nextId, last, pre, arg, ret>>

\* the store answers the handler's query and the handler checks the answer
Query(t) ==
    /\ task[t].pc = "query"
    /\ LET r == IF task[t].op = "create"
                THEN createQuery(store, task[t].body)
                ELSE putQuery(store, task[t].key, task[t].body)
       IN  task' = [task EXCEPT ![t].pc = r.pc, ![t].out = r.out]
    /\ UNCHANGED <<store, nextId, last, pre, arg, ret>>

\* the store performs the handler's write and the handler answers
Write(t) ==
    /\ task[t].pc = "write"
    /\ task[t].op = "create" => nextId <= MaxGames
    /\ LET d == CASE task[t].op = "create" ->
                       createWrite(store, nextId, task[t].body)
                  [] task[t].op = "update" ->
                       putWrite(store, task[t].key, task[t].body)
                  [] OTHER -> deleteGame(store, task[t].key, "none")
       IN  /\ store' = d.coll
           /\ task' = [task EXCEPT ![t].pc = "done", ![t].out = d.out]
    /\ nextId' = IF task[t].op = "create" THEN nextId + 1 ELSE nextId
    /\ UNCHANGED <<last, pre, arg, ret>>

NextRace == \E t \in Tasks : Arrive(t) \/ Query(t) \/ Write(t)

SpecRace == Init /\ [][NextRace]_vars

RECURSIVE SeqsUpTo(_, _)
\* the sequences over S of length at most n
SeqsUpTo(S, n) ==
    IF n = 0 THEN {<<>>}
    ELSE LET shorter == SeqsUpTo(S, n - 1)
         IN  shorter \cup {Append(q, x) : q \in shorter, x \in S}

(***************************************************************************)
(* Deal Validator applied to every deal list of the bounded input set.     *)
(***************************************************************************)
\* "1" and 1 are different storeIDs to Set.has
StoreIDInputs == {Undef, Null, Str(""), Str("1"), Num("1")}
PriceInputs ==
    {Undef, Null, Str(""), Str("9.99"), Num("4.99"), Str("abc"), Str("Infinity")}
ExtraInputs == {Undef, Str("x")}

DealInputs ==
    {Deal(sid, pr, ex) : sid \in StoreIDInputs, pr \in PriceInputs, ex \in ExtraInputs}

\* the deals values with at most n entries
DealsInputs(n) ==
    {Arr(q) : q \in SeqsUpTo(DealInputs, n)}
        \cup {NoArr("undefined"), NoArr("null"), NoArr("string")}

InitDeals ==
    /\ StoreIdle
    /\ arg \in DealsInputs(MaxDeals)
    /\ ret = Pending

CallValidateDeals ==
    /\ ret = Pending
    /\ ret' = validateDeals(arg)
    /\ UNCHANGED <<store, nextId, last, pre, arg, task>>

SpecDeals == InitDeals /\ [][CallValidateDeals]_vars

(***************************************************************************)
(* Game Attribute Validator applied to every payload of the input set.     *)
(***************************************************************************)
TitleInputs == {Undef, Null, Str(""), Str("A")}
CheapestPriceInputs ==
    {Undef, Null, Str(""), Num("0"), Str("5"), Num("5"), Str("abc"), Str("Infinity")}
DealsFieldInputs ==
    {NoArr("undefined"), NoArr("null"), NoArr("string"), Arr(<<>>), Arr(<<D1>>)}

GameInputs ==
    {Game(g, ti, Undef, cp, ds) :
        g \in {Undef, Str("g1")}, ti \in TitleInputs,
        cp \in CheapestPriceInputs, ds \in DealsFieldInputs}

InitAttrs ==
    /\ StoreIdle
    /\ arg \in GameInputs
    /\ ret = Pending

CallValidateGameAttributes ==
    /\ ret = Pending
    /\ ret' = validateGameAttributes(arg)
    /\ UNCHANGED <<store, nextId, last, pre, arg, task>>

SpecAttrs == InitAttrs /\ [][CallValidateGameAttributes]_vars

(***************************************************************************)
(* Equality Checker applied to pairs of a stored record and a proposed     *)
(* replacement.                                                            *)
(***************************************************************************)
D1n == Deal(Str("1"), Num("9.99"), Undef)
D1x == Deal(Str("1"), Str("9.99"), Str("x"))

SameDealsInputs(n) == {Arr(q) : q \in SeqsUpTo({D1, D1n, D1x, D2}, n)}

\* a stored record holds null where the request had no value
ExistingInputs ==
    {Game(g, Str("A"), Str("t1"), Str("5"), ds) :
        g \in {Null, Str("g1")}, ds \in SameDealsInputs(MaxDeals)}

NewInputs ==
    {Game(g, ti, th, cp, ds) :
        g \in {Undef, Null, Str("g1")}, ti \in {Str("A"), Str("B")},
        th \in {Str("t1"), Str("t2")}, cp \in {Str("5"), Num("5")},
        ds \in SameDealsInputs(MaxDeals)}

SameInputs == [existingGame : ExistingInputs, newGameData : NewInputs]

InitSame ==
    /\ StoreIdle
    /\ arg \in SameInputs
    /\ ret = Pending

CallCheckIfSameGame ==
    /\ ret = Pending
    /\ ret' = Ok(checkIfSameGame(arg.existingGame, arg.newGameData))
    /\ UNCHANGED <<store, nextId, last, pre, arg, task>>

SpecSame == InitSame /\ [][CallCheckIfSameGame]_vars

(***************************************************************************)
(* What the claims say of a deal list, stated apart from the code.         *)
(***************************************************************************)
NonEmptyValue(x) == x \notin {Undef, Null, Str("")}

\* a number, or a string that reads as a finite number
NumericValue(x) ==
    \/ x.t = "number"
    \/ x.t = "string" /\ x.v \in {"0", "5", "4.99", "9.99"}

DistinctStoreIDs(q) ==
    \A i, j \in 1..Len(q) : i # j => q[i].storeID # q[j].storeID

WellFormedDeals(q) ==
    \A i \in 1..Len(q) :
        /\ NonEmptyValue(q[i].storeID)
        /\ NonEmptyValue(q[i].price)
        /\ NumericValue(q[i].price)

\* under SpecDeals: validateDeals has been applied to arg
DealsCalled == ret # Pending

\* C6: for every non-empty deal list whose entries have pairwise distinct,
\* non-empty storeIDs and numeric prices, validateDeals succeeds and returns
\* a sequence of the same length whose i-th element is exactly
\* {storeID, price} of the i-th input entry.
C6_ValidDealsReturnedInOrder ==
    (/\ DealsCalled
     /\ arg.t = "array"
     /\ Len(arg.a) > 0
     /\ WellFormedDeals(arg.a)
     /\ DistinctStoreIDs(arg.a))
    => /\ ret.kind = "ok"
       /\ Len(ret.val) = Len(arg.a)
       /\ \A i \in 1..Len(arg.a) :
            ret.val[i] = [storeID |-> arg.a[i].storeID, price |-> arg.a[i].price]

\* a list of two different valid deals, one with an extra field, was accepted
C6_Witness ==
    /\ DealsCalled
    /\ ret.kind = "ok"
    /\ Len(arg.a) = MaxDeals
    /\ arg.a[1].extra # Undef
    /\ arg.a[1].price # arg.a[2].price

\* C7 as stated: every deal list in which two entries share a storeID fails
\* with DuplicateStoreID, whatever else the list holds.
C7_RepeatedStoreIDAlwaysDuplicate ==
    (/\ DealsCalled
     /\ arg.t = "array"
     /\ ~DistinctStoreIDs(arg.a))
    => ret.kind = "DuplicateStoreID"

\* no storeID and no price is null or the empty string, and every price is
\* numeric
AttributesAccepted(q) ==
    \A i \in 1..Len(q) :
        /\ q[i].storeID \notin {Null, Str("")}
        /\ q[i].price \notin {Null, Str("")}
        /\ NumericValue(q[i].price)

\* C7 amended: every deal list in which two entries share a storeID, and in
\* which no storeID or price is null or the empty string and every price is
\* numeric, fails with DuplicateStoreID; a list with an entry that fails
\* those checks fails with InvalidDeal or NonNumericPrice instead.
C7_RepeatedStoreIDAmongValidDeals ==
    (/\ DealsCalled
     /\ arg.t = "array"
     /\ ~DistinctStoreIDs(arg.a))
    => IF AttributesAccepted(arg.a)
       THEN ret.kind = "DuplicateStoreID"
       ELSE ret.kind \in {"InvalidDeal", "NonNumericPrice"}

\* two valid deals of the same store were rejected as duplicates
C7_Witness ==
    /\ DealsCalled
    /\ ret.kind = "DuplicateStoreID"
    /\ Len(arg.a) = MaxDeals
    /\ arg.a[1].storeID = arg.a[2].storeID
    /\ arg.a[1].price # arg.a[2].price

(***************************************************************************)
(* What the claims say of a game payload.                                  *)
(***************************************************************************)
\* under SpecAttrs: validateGameAttributes has been applied to arg
AttrsCalled == ret # Pending

\* the required fields whose key is absent from the payload
AbsentAttributes(game) ==
    {f \in {"title", "cheapestPrice", "deals"} :
        \/ f = "title" /\ game.title = Undef
        \/ f = "cheapestPrice" /\ game.cheapestPrice = Undef
        \/ f = "deals" /\ game.deals = NoArr("undefined")}

\* every required field is either absent or holds a value that is no
\* placeholder (null, "", 0, [])
AbsentOrPresent(game) ==
    /\ game.title = Undef \/ (game.title.t = "string" /\ game.title.v # "")
    /\ game.cheapestPrice \notin {Null, Str(""), Num("0")}
    /\ game.deals = NoArr("undefined") \/ (game.deals.t = "array" /\ Len(game.deals.a) > 0)

NamesOf(r) == {r.names[i] : i \in 1..Len(r.names)}

\* C8 as stated: a payload in which any non-empty subset of title,
\* cheapestPrice and deals is missing (absent, the other fields holding
\* values that are no placeholders) fails with MissingRequiredAttributes and
\* the names reported are exactly the missing fields.
C8_MissingAlwaysReported ==
    (/\ AttrsCalled
     /\ AbsentOrPresent(arg)
     /\ AbsentAttributes(arg) # {})
    => /\ ret.kind = "MissingRequiredAttributes"
       /\ NamesOf(ret) = AbsentAttributes(arg)
       /\ Len(ret.names) = Cardinality(AbsentAttributes(arg))

\* C8 amended: a payload in which title and deals are each absent or a proper
\* value (a non-empty string, a non-empty list), at least one of them is
\* absent, and cheapestPrice is numeric and not the number 0 fails with
\* MissingRequiredAttributes naming exactly the absent fields; when
\* cheapestPrice is itself absent, or is not numeric, the payload fails with
\* NonNumericCheapestPrice instead, whatever else is absent.
C8_MissingReportedWhenPriceNumeric ==
    (/\ AttrsCalled
     /\ AbsentOrPresent(arg)
     /\ AbsentAttributes(arg) # {})
    => IF NumericValue(arg.cheapestPrice)
       THEN /\ ret.kind = "MissingRequiredAttributes"
            /\ NamesOf(ret) = AbsentAttributes(arg)
            /\ Len(ret.names) = Cardinality(AbsentAttributes(arg))
       ELSE ret.kind = "NonNumericCheapestPrice"

\* a payload without title and without deals was rejected naming both
C8_Witness ==
    /\ AttrsCalled
    /\ AbsentAttributes(arg) = {"title", "deals"}
    /\ ret.kind = "MissingRequiredAttributes"
    /\ ret.names = <<"title", "deals">>

(***************************************************************************)
(* What the claims say of the equality of two records.                     *)
(***************************************************************************)
\* under SpecSame: checkIfSameGame has been applied to the pair arg
SameCalled == ret # Pending

\* the deals as an ordered sequence of {storeID, price} pairs
DealPairs(ds) ==
    [i \in 1..Len(ds.a) |-> [storeID |-> ds.a[i].storeID, price |-> ds.a[i].price]]

\* C9: checkIfSameGame returns true if and only if gameID, title, thumb and
\* cheapestPrice of the two records are identical by value and type and the
\* two deals lists are equal as ordered sequences of {storeID, price} pairs.
C9_SameIffFieldsAndDealPairsEqual ==
    SameCalled =>
        (ret.val <=>
            /\ arg.existingGame.gameID = arg.newGameData.gameID
            /\ arg.existingGame.title = arg.newGameData.title
            /\ arg.existingGame.thumb = arg.newGameData.thumb
            /\ arg.existingGame.cheapestPrice = arg.newGameData.cheapestPrice
            /\ DealPairs(arg.existingGame.deals) = DealPairs(arg.newGameData.deals))

(***************************************************************************)
(* What the claims say of the store and of the last request.               *)
(***************************************************************************)
Passes(body) ==
    /\ validateGameAttributes(body).kind = "ok"
    /\ validateDeals(body.deals).kind = "ok"

Served(op) == last.op = op /\ last.fault = "none"

\* C1: no two stored game records have the same title.
C1_TitlesUnique ==
    \A e1, e2 \in store : e1.id # e2.id => e1.doc.title # e2.doc.title

\* C2: no two stored game records have the same non-null gameID.
C2_GameIDsUnique ==
    \A e1, e2 \in store :
        e1.id # e2.id /\ e1.doc.gameID # Null => e1.doc.gameID # e2.doc.gameID

\* a record stored before the request has the body's title, or the body's
\* non-null gameID
Conflicts(coll, body) ==
    \E e \in coll :
        \/ e.doc.title = body.title
        \/ body.gameID \notin {Undef, Null} /\ e.doc.gameID = body.gameID

\* C3: a create of a payload that passes both validators, served without a
\* store failure, fails with DuplicateGame if and only if a stored record
\* has the payload's title or its non-null gameID, and then leaves the
\* store as it was; otherwise it inserts exactly one record, with the
\* payload's title and gameID, under a key not in the store before.
C3_CreateDuplicateIffConflict ==
    (Served("create") /\ Passes(last.body))
    => IF Conflicts(pre, last.body)
       THEN /\ last.out.result.kind = "DuplicateGame"
            /\ store = pre
       ELSE /\ last.out = Response(201, Ok(last.out.result.val))
            /\ pre \subseteq store
            /\ Cardinality(store \ pre) = 1
            /\ \A e \in store \ pre :
                /\ e.id \notin Ids(pre)
                /\ e.id = last.out.result.val
                /\ e.doc.title = last.body.title
                /\ e.doc.gameID = bsonValue(last.body.gameID)

\* a second create with the title of a stored record was rejected, both
\* gameIDs being null
C3_Witness ==
    /\ Served("create")
    /\ last.body.gameID \in {Undef, Null}
    /\ last.out.result.kind = "DuplicateGame"
    /\ \E e \in pre : e.doc.gameID = Null /\ e.doc.title = last.body.title
    /\ store = pre

\* the fields in which a stored record and a body differ
FieldsDiffering(doc, body) ==
    {f \in {"gameID", "title", "thumb", "cheapestPrice", "deals"} :
        \/ f = "gameID" /\ doc.gameID # body.gameID
        \/ f = "title" /\ doc.title # body.title
        \/ f = "thumb" /\ doc.thumb # body.thumb
        \/ f = "cheapestPrice" /\ doc.cheapestPrice # body.cheapestPrice
        \/ f = "deals" /\ doc.deals # body.deals}

\* C4: for a record stored by a successful create (under SpecCrud, every
\* record), an update with a payload identical to the stored value fails
\* with NoChange, and an update whose valid payload differs from the stored
\* value in exactly one field succeeds.
C4_NoChangeOrOneFieldSucceeds ==
    (/\ Served("update")
     /\ Passes(last.body)
     /\ last.key \in Ids(pre))
    => LET differing == FieldsDiffering(DocAt(pre, last.key), last.body)
       IN  /\ differing = {} => last.out = Response(400, Err("NoChange"))
           /\ Cardinality(differing) = 1 => last.out = Response(200, Ok(last.key))

\* C5: every stored record's deals list has pairwise distinct storeIDs.
C5_StoredStoreIDsDistinct ==
    \A e \in store : e.doc.deals.t = "array" => DistinctStoreIDs(e.doc.deals.a)

\* C10: a fetch-and-store request that meets a network failure, a malformed
\* or empty upstream payload, or a store failure (failing to obtain the
\* connection included) returns a result describing the error, inserts
\* nothing, and does not end as an uncaught fault.
C10_FetchFailsSoftly ==
    (/\ last.op = "fetch"
     /\ last.fault # "none" \/ last.up.shape \in {"empty", "malformed"})
    => /\ last.out.status = 200
       /\ last.out.result.kind \in {"FetchFailed", "InvalidAPIResponse"}
       /\ store = pre

\* C11: served without a store failure, a delete-all succeeds, reports the
\* number of records stored immediately before it (0 on an empty store) and
\* leaves the store empty; a delete-by-key of a present key removes exactly
\* that record and leaves every other record unchanged; a delete-by-key of
\* an absent key reports NotFound and leaves the store unchanged.
C11_DeleteCountsAndFrames ==
    /\ Served("deleteAll")
       => /\ last.out = Response(200, Ok(Cardinality(pre)))
          /\ store = {}
    /\ Served("delete") /\ last.key \in Ids(pre)
       => /\ last.out.status = 200
          /\ last.out.result.kind = "ok"
          /\ last.key \notin Ids(store)
          /\ Cardinality(store) = Cardinality(pre) - 1
          /\ \A e \in pre : e.id # last.key => e \in store
          /\ store \subseteq pre
    /\ Served("delete") /\ last.key \notin Ids(pre)
       => /\ last.out = Response(404, Err("NotFound"))
          /\ store = pre

\* a delete-by-key of one of two stored records, the other one remaining
C11_Witness ==
    /\ Served("delete")
    /\ last.key \in Ids(pre)
    /\ Cardinality(pre) = 2
    /\ Cardinality(store) = 1

\* C13: every create, update, fetch-and-store or delete-by-key request that
\* reports a failure (a validator's error, DuplicateGame, NotFound, NoChange,
\* an upstream or store error), run without overlap, leaves the stored
\* records exactly as they were before the request.
C13_FailureLeavesStore ==
    (/\ last.op \in {"create", "update", "fetch", "delete"}
     /\ last.out.result.kind # "ok")
    => store = pre

\* an update of a stored record rejected by the Deal Validator
C13_Witness ==
    /\ last.op = "update"
    /\ last.key \in Ids(pre)
    /\ last.out = Response(400, Err("DuplicateStoreID"))
    /\ store = pre

\* the value a record holds for a payload's value: null where the payload
\* has none
StoredValueOf(x) == IF x = Undef THEN Null ELSE x

\* C14: a successful update replaces the record field for field: afterwards
\* the record's gameID, title, thumb, cheapestPrice and deals are the
\* payload's values (null where the payload has none, never the old value),
\* its key is unchanged, the number of stored records is unchanged and
\* every other record is unchanged.
C14_UpdateReplacesEveryField ==
    (/\ last.op = "update"
     /\ last.out.result.kind = "ok")
    => /\ last.key \in Ids(pre)
       /\ Ids(store) = Ids(pre)
       /\ Cardinality(store) = Cardinality(pre)
       /\ DocAt(store, last.key).gameID = StoredValueOf(last.body.gameID)
       /\ DocAt(store, last.key).title = StoredValueOf(last.body.title)
       /\ DocAt(store, last.key).thumb = StoredValueOf(last.body.thumb)
       /\ DocAt(store, last.key).cheapestPrice = StoredValueOf(last.body.cheapestPrice)
       /\ DocAt(store, last.key).deals = last.body.deals
       /\ \A e \in pre : e.id # last.key => e \in store

\* a successful update that changes the title of one of two stored records
C14_Witness ==
    /\ last.op = "update"
    /\ last.out.result.kind = "ok"
    /\ Cardinality(pre) = 2
    /\ DocAt(pre, last.key).title # last.body.title
    /\ DocAt(store, last.key).title = last.body.title

\* the error the validators answer a payload with, the attributes first
ValidationError(body) ==
    IF validateGameAttributes(body).kind # "ok"
    THEN validateGameAttributes(body)
    ELSE validateDeals(body.deals)

\* C15: an update checks in a fixed order.  A payload a validator rejects
\* fails with that validation error whether or not the key exists; a valid
\* payload for an absent key fails with NotFound; NoChange is reported only
\* for an existing key and a valid payload; and no update reaches the store
\* write unless the validators, the existence check and the Equality
\* Checker have all let it pass.
C15_UpdateChecksInOrder ==
    /\ Served("update") /\ ~Passes(last.body)
       => /\ last.out = Response(400, ValidationError(last.body))
          /\ store = pre
    /\ Served("update") /\ Passes(last.body) /\ last.key \notin Ids(pre)
       => last.out = Response(400, Err("NotFound"))
    /\ last.op = "update" /\ last.out.result.kind = "NoChange"
       => /\ Passes(last.body)
          /\ last.key \in Ids(pre)
    /\ (/\ last.op = "update"
        /\ \/ store # pre
           \/ last.out.result.kind \in {"ok", "NotFoundOrNoChange"}
           \/ last.fault = "write" /\ last.out.result.kind = "StorageFailure")
       => /\ Passes(last.body)
          /\ last.key \in Ids(pre)
          /\ ~checkIfSameGame(DocAt(pre, last.key), last.body)

\* an invalid payload sent to an absent key fails with the validator's error
C15_Witness ==
    /\ Served("update")
    /\ last.key \notin Ids(pre)
    /\ last.out.result.kind = "MissingRequiredAttributes"

\* the fetched game's gameID is the gameID of a record of coll
HasGameID(coll, up) == \E e \in coll : e.doc.gameID = up.game.gameID

\* C16: fetch-and-store decides existence by gameID alone.  Served without
\* a failure, if a stored record has the fetched gameID it inserts nothing
\* and reports that the game exists; otherwise it inserts exactly one
\* record, even when a stored record has the same title.  A fetch that
\* directly follows a fetch of the same upstream payload which stored the
\* game or found it stored leaves the store as that one left it.
C16_FetchDecidesByGameID ==
    /\ [](Served("fetch") /\ last.up.shape = "ok"
          => IF HasGameID(pre, last.up)
             THEN /\ last.out = Response(200, Err("Exists"))
                  /\ store = pre
             ELSE /\ last.out.result.kind = "ok"
                  /\ pre \subseteq store
                  /\ Cardinality(store) = Cardinality(pre) + 1
                  /\ HasGameID(store \ pre, last.up))
    /\ [][(/\ Served("fetch")
           /\ last.out.result.kind \in {"ok", "Exists"}
           /\ last'.op = "fetch"
           /\ last'.up = last.up)
          => store' = store]_vars

\* a fetch that stored the game although a record with its title was stored
C16_Witness ==
    /\ Served("fetch")
    /\ last.out.result.kind = "ok"
    /\ \E e \in pre : e.doc.title = last.up.game.title
    /\ Cardinality(store) = Cardinality(pre) + 1

\* the entry's storeID or price is null or the empty string
NullOrEmptyAttribute(deal) ==
    \/ deal.storeID \in {Null, Str("")}
    \/ deal.price \in {Null, Str("")}

\* C17 as stated: every non-empty deal list that contains an entry whose
\* storeID or price is null or empty fails with InvalidDeal, wherever that
\* entry stands and whatever the other entries hold.
C17_NullOrEmptyAlwaysInvalidDeal ==
    (/\ DealsCalled
     /\ arg.t = "array"
     /\ \E i \in 1..Len(arg.a) : NullOrEmptyAttribute(arg.a[i]))
    => ret.kind = "InvalidDeal"

\* the position of the first entry whose storeID or price is null or empty
FirstNullOrEmpty(q) ==
    CHOOSE i \in 1..Len(q) :
        /\ NullOrEmptyAttribute(q[i])
        /\ \A j \in 1..(i - 1) : ~NullOrEmptyAttribute(q[j])

\* C17 amended: a non-empty deal list that contains an entry whose storeID
\* or price is null or empty fails with InvalidDeal when every entry before
\* the first such entry has a numeric price, and with NonNumericPrice when
\* one of those earlier entries has a price that is absent or not numeric.
C17_NullOrEmptyInvalidUnlessEarlierPrice ==
    (/\ DealsCalled
     /\ arg.t = "array"
     /\ \E i \in 1..Len(arg.a) : NullOrEmptyAttribute(arg.a[i]))
    => IF \A j \in 1..(FirstNullOrEmpty(arg.a) - 1) : NumericValue(arg.a[j].price)
       THEN ret.kind = "InvalidDeal"
       ELSE ret.kind = "NonNumericPrice"

\* a list whose last entry alone has a null or empty attribute was rejected
\* as InvalidDeal
C17_Witness ==
    /\ DealsCalled
    /\ ret.kind = "InvalidDeal"
    /\ Len(arg.a) = MaxDeals
    /\ \A j \in 1..(MaxDeals - 1) : ~NullOrEmptyAttribute(arg.a[j])
    /\ NullOrEmptyAttribute(arg.a[MaxDeals])

\* the required fields that hold a placeholder: null, "", 0 or the empty list
PlaceholderAttributes(game) ==
    {f \in {"title", "cheapestPrice", "deals"} :
        \/ f = "title" /\ game.title \in {Null, Str(""), Num("0")}
        \/ f = "cheapestPrice" /\ game.cheapestPrice \in {Null, Str(""), Num("0")}
        \/ f = "deals" /\ game.deals \in {NoArr("null"), NoArr("string"), Arr(<<>>)}}

\* C18: a payload whose title, cheapestPrice or deals is a placeholder
\* (null, "", zero or the empty list) is rejected by validateGameAttributes
\* itself with MissingRequiredAttributes naming that field; in particular
\* deals = [] is rejected there.
C18_PlaceholdersReportedMissing ==
    (/\ AttrsCalled
     /\ PlaceholderAttributes(arg) # {})
    => /\ ret.kind = "MissingRequiredAttributes"
       /\ PlaceholderAttributes(arg) \subseteq NamesOf(ret)

(***************************************************************************)
(* What the claims say of requests served concurrently (SpecRace).         *)
(***************************************************************************)
\* task t is a request of kind op that has answered
Answered(t, op) == task[t].op = op /\ task[t].pc = "done"

\* C12: a create that has passed its existence check inserts its record and
\* completes successfully whatever has been inserted since the check, a
\* record of the same title included; so two concurrent creates of one
\* title that both pass the check before either inserts both complete
\* successfully and leave two stored records with the same title.
C12_CheckedCreateInsertsRegardless ==
    [][\A t \in Tasks :
        (/\ task[t].op = "create"
         /\ task[t].pc = "write"
         /\ task'[t].pc = "done")
        => /\ task'[t].out = Response(201, Ok(nextId))
           /\ nextId \notin Ids(store)
           /\ store \subseteq store'
           /\ Ids(store') = Ids(store) \cup {nextId}
           /\ DocAt(store', nextId).title = task[t].body.title]_vars

\* both creates of one title have completed successfully and the store
\* holds the two records they inserted, with the same title
C12_Witness ==
    /\ \A t \in Tasks : Answered(t, "create") /\ task[t].out.status = 201
    /\ task["t1"].body.title = task["t2"].body.title
    /\ task["t1"].out.result.val # task["t2"].out.result.val
    /\ \A t \in Tasks :
          /\ task[t].out.result.val \in Ids(store)
          /\ DocAt(store, task[t].out.result.val).title = task[t].body.title

\* C19: an update never creates a record.  When the record was deleted
\* between the update's existence and no-op check and its store write, the
\* write modifies no record, the update reports "not found or no changes
\* made", and the key is still absent afterwards.
C19_UpdateNeverCreates ==
    [][\A t \in Tasks :
        (/\ task[t].op = "update"
         /\ task[t].pc = "write"
         /\ task'[t].pc = "done")
        => /\ Ids(store') = Ids(store)
           /\ task[t].key \notin Ids(store)
              => /\ store' = store
                 /\ task'[t].out = Response(400, Err("NotFoundOrNoChange"))]_vars

\* an update whose payload leaves no field out, so that it would have
\* modified the record, answered "not found or no changes made" after the
\* other request deleted its key, and the key is absent
C19_Witness ==
    \E t, u \in Tasks :
        /\ Answered(t, "update")
        /\ task[t].body.gameID # Undef
        /\ task[t].out = Response(400, Err("NotFoundOrNoChange"))
        /\ Answered(u, "delete")
        /\ task[u].key = task[t].key
        /\ task[u].out = Response(200, Ok(task[u].key))
        /\ task[t].key \notin Ids(store)

====
